---- MODULE Spec2Model ----
(***************************************************************************)
(* A model of the backfill pipeline of ddl/backfilling.go: the driver      *)
(* (writePhysicalTableRecord, handleRangeTasks, sendTasksAndWait,          *)
(* waitTaskResults, drainTasks), the backfill workers (run,                *)
(* handleBackfillTask) and the doneTaskKeeper.                             *)
(*                                                                         *)
(* Keys are modelled as integers: kv.Key.Next() (the smallest key strictly *)
(* greater than k) is k + 1 and kv.Key.Cmp is the integer order.  Every    *)
(* key of the model carries the table's record prefix.                     *)
(***************************************************************************)
EXTENDS Integers, Sequences, FiniteSets, TLC

\* ------------------------------------------------------------------ bounds
\* The largest key of the model.
MaxKey == 5
\* The largest batch fed to a stand-alone doneTaskKeeper.
MaxKeeperTasks == 3
\* The largest value of the package variable backfillTaskChanSize (1024 by
\* default, set by SetBackfillTaskChanSizeForTest).
MaxChanSize == 3
\* The largest value of the configuration variable tidb_ddl_reorg_worker_cnt.
MaxWorkerCnt == 2
\* How many times tidb_ddl_reorg_worker_cnt changes during one run.
MaxCfgChanges == 1
\* How many errors the environment injects in one run (BackfillData,
\* the region cache, UpdateReorgMeta).
MaxErrs == 2

Keys == 0..MaxKey

\* A nil kv.Key.
NilKey == -1

\* kv.Key.Next(): the smallest key strictly greater than k.
KeyNext(k) == k + 1

Min(a, b) == IF a < b THEN a ELSE b

Max(a, b) == IF a > b THEN a ELSE b

\* The identities of the worker goroutines ever started in one run.
Goroutines == 1..(MaxWorkerCnt * (1 + MaxCfgChanges))

VARIABLES
  \* ---- the table, the store and the configuration
  rows,                  \* the keys at which the snapshot holds a record
  regionBounds,          \* the keys at which a region starts
  storeIsTikv,           \* whether store is a tikv.Storage
  lookupErr,             \* range end keys whose reverse lookup fails
  backfillTaskChanSize,  \* the package variable of that name
  reorgWorkerCnt,        \* variable.GetDDLReorgWorkerCounter()
  runnable,              \* whether isReorgRunnable returns nil
  errBudget,             \* errors the environment may still inject
  cfgBudget,             \* configuration changes still to come
  \* ---- reorgInfo
  endKey,                \* reorgInfo.EndKey
  persisted,             \* the resume key UpdateReorgMeta made durable
  \* ---- writePhysicalTableRecord, handleRangeTasks, sendTasksAndWait
  dpc,                   \* where the driver is
  startKey,              \* writePhysicalTableRecord's startKey
  kvRanges,              \* the ranges of the current round
  batchTasks,            \* the tasks of the current round
  sent,                  \* how many tasks of the batch are pushed
  retErr,                \* the error sendTasksAndWait returns
  \* ---- waitTaskResults, drainTasks
  i,                     \* the loop index of waitTaskResults
  taskSize,              \* its taskSize
  firstErr,              \* its firstErr
  cnt,                   \* drainTasks' cnt
  \* ---- backfillScheduler
  taskCh,                \* scheduler.taskCh
  resultCh,              \* scheduler.resultCh
  taskChClosed,          \* whether Close closed taskCh
  workers,               \* scheduler.workers, as goroutine identities
  maxWorkerSize,         \* scheduler.maxWorkerSize
  gor,                   \* the worker goroutines
  \* ---- history, for the properties
  delivered,             \* per task id of the round: the result the driver read
  took,                  \* per task id of the round: the goroutines that received it
  nResults,              \* per task id of the round: results sent for it
  drainedIds,            \* the task ids of the round drainTasks removed
  nRead,                 \* results waitTaskResults read in the round
  updCalls,              \* UpdateReorgMeta calls of this sendTasksAndWait
  updArg,                \* the key of the last UpdateReorgMeta call
  persistLog,            \* per round: its startKey and the key passed to
                         \* UpdateReorgMeta
  taskLog,               \* the tasks of all rounds with their final nextKey
  obs                    \* what the driver last did about the worker size
                         \* and about isReorgRunnable

\* ---------------------------------------------------------- doneTaskKeeper
VARIABLES
  keeper,      \* the doneTaskKeeper of the batch being collected
  kpN,         \* stand-alone keeper: the number of tasks of the batch
  kpKeys,      \* stand-alone keeper: the next key k_id of each task id
  kpStart,     \* stand-alone keeper: the start key of the batch
  kpFed,       \* stand-alone keeper: the ids fed so far
  kpHist,      \* stand-alone keeper: the ids fed, in order, each with the
               \* keeper's nextKey after its update
  hw           \* stand-alone worker: one worker handling one task

EmptyMap == [x \in {} |-> 0]

MapPut(m, k, v) == [x \in (DOMAIN m) \cup {k} |-> IF x = k THEN v ELSE m[x]]

MapDel(m, k) == [x \in (DOMAIN m) \ {k} |-> m[x]]

newDoneTaskKeeper(start) ==
  [doneTaskNextKey |-> EmptyMap, current |-> 0, nextKey |-> start]

\* The inner for loop of updateNextKey: take the stashed keys of the
\* consecutive ids that follow n.current.
RECURSIVE keeperDrain(_)
keeperDrain(n) ==
  IF n.current \in DOMAIN n.doneTaskNextKey
  THEN keeperDrain([doneTaskNextKey |-> MapDel(n.doneTaskNextKey, n.current),
                    current |-> n.current + 1,
                    nextKey |-> n.doneTaskNextKey[n.current]])
  ELSE n

\* A keeper that advances over the fed id but forgets the stashed ones.
updateNextKeyNoDrain(n, doneTaskID, next) ==
  IF doneTaskID = n.current
  THEN [n EXCEPT !.current = @ + 1, !.nextKey = next]
  ELSE [n EXCEPT !.doneTaskNextKey = MapPut(@, doneTaskID, next)]

\* A keeper that takes the key of every fed id as its nextKey at once, in
\* order or not.
updateNextKeyEager(n, doneTaskID, next) ==
  IF doneTaskID = n.current
  THEN keeperDrain([n EXCEPT !.current = @ + 1, !.nextKey = next])
  ELSE [n EXCEPT !.doneTaskNextKey = MapPut(@, doneTaskID, next),
                 !.nextKey = next]

updateNextKey(n, doneTaskID, next) ==
  IF doneTaskID = n.current
  THEN keeperDrain([n EXCEPT !.current = @ + 1, !.nextKey = next])
  ELSE [n EXCEPT !.doneTaskNextKey = MapPut(@, doneTaskID, next)]

\* ------------------------------------------------- ranges and batch tasks
\* What rc.SplitRegionRanges returns for [start, end) with the region map
\* regionBounds: the pieces of the span cut at the region boundaries inside
\* it, at most limit of them.
RECURSIVE regionRanges(_, _, _)
regionRanges(start, end, limit) ==
  IF limit = 0
  THEN << >>
  ELSE LET inside == {b \in regionBounds : start < b /\ b < end} IN
       IF inside = {}
       THEN << [StartKey |-> start, EndKey |-> end] >>
       ELSE LET b == CHOOSE x \in inside : \A y \in inside : x <= y IN
            << [StartKey |-> start, EndKey |-> b] >>
              \o regionRanges(b, end, limit - 1)

\* A splitTableRanges that hands on whatever the region cache answered.
splitTableRangesUnchecked(start, end, cache) ==
  IF ~storeIsTikv
  THEN [ranges |-> << [StartKey |-> start, EndKey |-> end] >>, err |-> "nil"]
  ELSE [ranges |-> cache, err |-> "nil"]

\* splitTableRanges when rc.SplitRegionRanges answers cache without error:
\* the whole range for a store that is no tikv.Storage, else the answer, or
\* ErrInvalidSplitRegionRanges when the answer is empty.
splitTableRangesOf(start, end, cache) ==
  IF ~storeIsTikv
  THEN [ranges |-> << [StartKey |-> start, EndKey |-> end] >>, err |-> "nil"]
  ELSE IF Len(cache) = 0
       THEN [ranges |-> << >>, err |-> "ErrInvalidSplitRegionRanges"]
       ELSE [ranges |-> cache, err |-> "nil"]

\* splitTableRanges without its error returns: the whole range for a store
\* that is no tikv.Storage, and the region ranges otherwise.
splitTableRanges(start, end, limit) ==
  splitTableRangesOf(start, end, regionRanges(start, end, limit)).ranges

\* getRangeEndKey: the largest record key below end.Next(), found by a
\* reverse iterator; start when there is none or it lies below start; an
\* error (and a nil key) when the iterator cannot be opened.
getRangeEndKey(start, end) ==
  IF end \in lookupErr
  THEN [key |-> NilKey, err |-> TRUE]
  ELSE LET below == {r \in rows : r < KeyNext(end)} IN
       IF below = {}
       THEN [key |-> start, err |-> FALSE]
       ELSE LET last == CHOOSE x \in below : \A y \in below : y <= x IN
            [key |-> IF last < start THEN start ELSE last, err |-> FALSE]

\* reorgBackfillTask.excludedEndKey
excludedEndKey(task) ==
  IF task.endInclude THEN KeyNext(task.endKey) ELSE task.endKey

\* A task whose end is included exactly when the reverse lookup found the
\* declared end of the range.
batchTaskIncludeFound(ranges, idx) ==
  LET keyRange == ranges[idx]
      endK     == getRangeEndKey(keyRange.StartKey, keyRange.EndKey)
  IN [id         |-> idx - 1,
      startKey   |-> keyRange.StartKey,
      endKey     |-> IF endK.err THEN keyRange.EndKey ELSE endK.key,
      endInclude |-> endK.key = keyRange.EndKey \/ idx = Len(ranges)]

\* A task whose end is included exactly when the reverse lookup found
\* another key than the declared end, whatever the place of its range.
batchTaskNoFinalRule(ranges, idx) ==
  LET keyRange == ranges[idx]
      endK     == getRangeEndKey(keyRange.StartKey, keyRange.EndKey)
  IN [id         |-> idx - 1,
      startKey   |-> keyRange.StartKey,
      endKey     |-> IF endK.err THEN keyRange.EndKey ELSE endK.key,
      endInclude |-> endK.key # keyRange.EndKey]

\* The task getBatchTasks builds for kvRanges[idx] (idx counts from 1; the
\* task id is the Go index idx - 1).  The keys of the model are never empty,
\* so the two len(...) == 0 replacements do not apply.
batchTask(ranges, idx) ==
  LET keyRange == ranges[idx]
      endK     == getRangeEndKey(keyRange.StartKey, keyRange.EndKey)
  IN [id         |-> idx - 1,
      startKey   |-> keyRange.StartKey,
      endKey     |-> IF endK.err THEN keyRange.EndKey ELSE endK.key,
      endInclude |-> endK.key # keyRange.EndKey \/ idx = Len(ranges)]

RECURSIVE batchTasksFrom(_, _, _, _)
batchTasksFrom(ranges, batch, idx, acc) ==
  IF idx > Len(ranges)
  THEN acc
  ELSE LET acc2 == Append(acc, batchTask(ranges, idx)) IN
       IF Len(acc2) >= batch
       THEN acc2
       ELSE batchTasksFrom(ranges, batch, idx + 1, acc2)

getBatchTasks(ranges, batch) == batchTasksFrom(ranges, batch, 1, << >>)

\* ------------------------------------------------------ variable groups
cfgVars == <<rows, regionBounds, storeIsTikv, lookupErr, backfillTaskChanSize,
             endKey>>

envVars == <<reorgWorkerCnt, runnable, errBudget, cfgBudget>>

loopVars == <<startKey, kvRanges, batchTasks, sent, retErr, persisted>>

waitVars == <<i, taskSize, firstErr, cnt, keeper>>

chanVars == <<taskCh, resultCh, taskChClosed>>

poolVars == <<workers, maxWorkerSize>>

histVars == <<delivered, took, nResults, drainedIds, nRead, updCalls, updArg,
              persistLog, taskLog, obs>>

kpVars == <<kpN, kpKeys, kpStart, kpFed, kpHist, hw>>

vars == <<cfgVars, envVars, dpc, loopVars, waitVars, chanVars, poolVars, gor,
          histVars, kpVars>>

\* The stand-alone worker before it is given a task.
NoTask == [pc |-> "idle"]

\* ------------------------------------------------------ backfillScheduler
NoResult == [taskID |-> -1, nextKey |-> NilKey, addedCount |-> 0,
             scanCount |-> 0, err |-> "nil"]

\* A goroutine that was never started, or has returned from run.  chk is
\* what isReorgRunnable returned on its last call in handleBackfillTask.
GorAt(pc) == [pc |-> pc, cancelled |-> FALSE, task |-> -1, cur |-> NilKey,
              res |-> NoResult, chk |-> "none"]

SeqRange(q) == {q[x] : x \in DOMAIN q}

\* The goroutine identities adjustWorkerSize may use for a new worker.
FreeGoroutines(ws, g) ==
  {id \in Goroutines : g[id].pc \in {"none", "exited"} /\ id \notin SeqRange(ws)}

\* adjustWorkerSize, "Increase the worker": start workers until there are
\* target of them; each begins at the top of run's loop.
RECURSIVE growWorkers(_, _, _)
growWorkers(ws, g, target) ==
  IF Len(ws) >= target
  THEN [workers |-> ws, gor |-> g]
  ELSE LET free == FreeGoroutines(ws, g)
           id   == CHOOSE x \in free : \A y \in free : x <= y
       IN growWorkers(Append(ws, id), [g EXCEPT ![id] = GorAt("top")], target)

\* closeBackfillWorkers: cancel the context of each worker of the list.
closeBackfillWorkers(ids, g) ==
  [id \in Goroutines |->
     IF id \in ids /\ g[id].pc # "none"
     THEN [g[id] EXCEPT !.cancelled = TRUE]
     ELSE g[id]]

\* scheduler.expectedWorkerSize: the configured count clamped to
\* maxWorkerSize.
expectedWorkerSize(maxSize) == Min(reorgWorkerCnt, maxSize)

\* scheduler.adjustWorkerSize: grow the worker list to the expected size, or
\* cut it to that size and cancel the workers cut off.
adjustWorkerSize(ws, g, maxSize) ==
  LET workerCnt == expectedWorkerSize(maxSize) IN
  IF Len(ws) > workerCnt
  THEN [workers |-> SubSeq(ws, 1, workerCnt),
        gor |-> closeBackfillWorkers(
                  {ws[x] : x \in (workerCnt + 1)..Len(ws)}, g)]
  ELSE growWorkers(ws, g, workerCnt)

\* The capacity of scheduler.taskCh and of scheduler.resultCh.
chanCap == backfillTaskChanSize

\* -------------------------------------------------------- backfillWorker
TaskOf(id) == batchTasks[id + 1]

\* The backfillResult handleBackfillTask starts from.
newResult(task) ==
  [taskID |-> task.id, nextKey |-> task.startKey, addedCount |-> 0,
   scanCount |-> 0, err |-> "nil"]

\* A merge that keeps the last batch's counts only.
mergeLastBatchOnly(taskCtx, result) ==
  [result EXCEPT !.nextKey = taskCtx.nextKey,
                 !.addedCount = taskCtx.addedCount,
                 !.scanCount = taskCtx.scanCount]

mergeBackfillCtxToResult(taskCtx, result) ==
  [result EXCEPT !.nextKey = taskCtx.nextKey,
                 !.addedCount = @ + taskCtx.addedCount,
                 !.scanCount = @ + taskCtx.scanCount]

\* The records of the table in [from, to).
rowsIn(from, to) == Cardinality({r \in rows : from <= r /\ r < to})

\* What BackfillData returns in the pipeline for a batch over [from, to):
\* it has scanned the records of that span and added an entry for each.
batchCtx(from, to) ==
  [nextKey |-> to, addedCount |-> rowsIn(from, to),
   scanCount |-> rowsIn(from, to)]

\* `rc.increaseRowCount(int64(taskCtx.addedCount))`
increaseRowCount(rowCount, addedCount) == rowCount + addedCount

\* run, the loop head: a worker whose context was cancelled returns,
\* another goes on to receive from taskCh.
WorkerTop(g) ==
  /\ gor[g].pc = "top"
  /\ gor' = [gor EXCEPT ![g] =
               IF gor[g].cancelled THEN GorAt("exited")
               ELSE [gor[g] EXCEPT !.pc = "recv"]]
  /\ UNCHANGED <<cfgVars, envVars, dpc, loopVars, waitVars, chanVars,
                 poolVars, histVars, kpVars>>

\* What `task, more := <-w.taskCh` takes from a channel holding ch.
chanRecv(ch) == Tail(ch)

\* run: `task, more := <-w.taskCh` with a task in the channel, and the
\* first lines of handleBackfillTask (result starts at the task's startKey).
WorkerRecv(g) ==
  /\ gor[g].pc = "recv"
  /\ taskCh # << >>
  /\ LET id == Head(taskCh) IN
       /\ gor' = [gor EXCEPT ![g] =
                    [pc |-> "run", cancelled |-> gor[g].cancelled,
                     task |-> id, cur |-> TaskOf(id).startKey,
                     res |-> newResult(TaskOf(id)),
                     chk |-> "none"]]
       /\ took' = [took EXCEPT ![id] = @ + 1]
  /\ taskCh' = chanRecv(taskCh)
  /\ UNCHANGED <<cfgVars, envVars, dpc, loopVars, waitVars, resultCh,
                 taskChClosed, poolVars, delivered, nResults, drainedIds,
                 nRead, updCalls, updArg, persistLog, taskLog, obs, kpVars>>

\* run: the receive on the closed, empty channel (!more): the worker returns.
WorkerRecvClosed(g) ==
  /\ gor[g].pc = "recv"
  /\ taskCh = << >>
  /\ taskChClosed
  /\ gor' = [gor EXCEPT ![g] = GorAt("exited")]
  /\ UNCHANGED <<cfgVars, envVars, dpc, loopVars, waitVars, chanVars,
                 poolVars, histVars, kpVars>>

\* handleBackfillTask, one turn of its loop in which isReorgRunnable
\* returns nil and BackfillData commits a batch: the batch ends at some key
\* after handleRange.startKey and not after the task's excludedEndKey, and is
\* done exactly when it reaches that key.  The check and the call are
\* consecutive statements of one goroutine and the call does not read what
\* the check read, so they are one step whose guard is the check's answer.
WorkerBatch(g) ==
  /\ gor[g].pc = "run"
  /\ runnable
  /\ LET task == TaskOf(gor[g].task)
         excl == excludedEndKey(task)
     IN \E nextKey \in (IF gor[g].cur < excl
                        THEN (gor[g].cur + 1)..excl ELSE {gor[g].cur}) :
          LET taskCtx == batchCtx(gor[g].cur, nextKey) IN
          /\ gor' = [gor EXCEPT ![g] =
                       [@ EXCEPT !.res = mergeBackfillCtxToResult(taskCtx, @),
                                 !.cur = nextKey,
                                 !.chk = "ok",
                                 !.pc = IF nextKey >= excl THEN "send"
                                        ELSE "run"]]
          /\ obs' = [obs EXCEPT !.rcRows =
                       increaseRowCount(@, taskCtx.addedCount)]
  /\ UNCHANGED <<cfgVars, envVars, dpc, loopVars, waitVars, chanVars,
                 poolVars, delivered, took, nResults, drainedIds, nRead,
                 updCalls, updArg, persistLog, taskLog, kpVars>>

\* handleBackfillTask, a turn in which BackfillData returns an error.
WorkerBatchErr(g) ==
  /\ gor[g].pc = "run"
  /\ runnable
  /\ errBudget > 0
  /\ errBudget' = errBudget - 1
  /\ gor' = [gor EXCEPT ![g] =
               [@ EXCEPT !.res = [@ EXCEPT !.err = "ErrBackfill"],
                         !.chk = "ok",
                         !.pc = "send"]]
  /\ UNCHANGED <<cfgVars, reorgWorkerCnt, runnable, cfgBudget, dpc, loopVars,
                 waitVars, chanVars, poolVars, histVars, kpVars>>

\* A recover that names task 0 whatever task is in flight.
recoverResultStale(curTaskID) ==
  [taskID |-> 0, nextKey |-> NilKey, addedCount |-> 0, scanCount |-> 0,
   err |-> "ErrReorgPanic"]

\* The result the deferred util.Recover of run sends:
\* `&backfillResult{taskID: curTaskID, err: dbterror.ErrReorgPanic}`.
recoverResult(curTaskID) ==
  [taskID |-> curTaskID, nextKey |-> NilKey, addedCount |-> 0,
   scanCount |-> 0, err |-> "ErrReorgPanic"]

\* handleBackfillTask panics in a turn of its loop (in BackfillData): the
\* deferred recover of run has the result for curTaskID to send, and run
\* returns after the send.
WorkerPanic(g) ==
  /\ gor[g].pc = "run"
  /\ runnable
  /\ errBudget > 0
  /\ errBudget' = errBudget - 1
  /\ gor' = [gor EXCEPT ![g] =
               [@ EXCEPT !.res = recoverResult(gor[g].task),
                         !.chk = "ok",
                         !.pc = "send"]]
  /\ UNCHANGED <<cfgVars, reorgWorkerCnt, runnable, cfgBudget, dpc, loopVars,
                 waitVars, chanVars, poolVars, histVars, kpVars>>

\* A worker that ends the task without recording the error of
\* isReorgRunnable.
resultIgnoringCheck(result) == result

\* handleBackfillTask, `result.err = err` for the error of isReorgRunnable.
resultNotRunnable(result) == [result EXCEPT !.err = "ErrCancelled"]

\* handleBackfillTask, a turn in which isReorgRunnable returns an error.
WorkerNotRunnable(g) ==
  /\ gor[g].pc = "run"
  /\ ~runnable
  /\ gor' = [gor EXCEPT ![g] =
               [@ EXCEPT !.res = resultNotRunnable(@),
                         !.chk = "err",
                         !.pc = "send"]]
  /\ UNCHANGED <<cfgVars, envVars, dpc, loopVars, waitVars, chanVars,
                 poolVars, histVars, kpVars>>

\* A worker that reports every result twice.
resultSendTwice(ch, result) == Append(Append(ch, result), result)

\* What `w.resultCh <- result` leaves in a channel holding ch.
resultSend(ch, result) == Append(ch, result)

\* A worker that goes back to the loop head after every result.
afterSendContinue(w) == [GorAt("top") EXCEPT !.cancelled = w.cancelled]

\* run after `w.resultCh <- result`: return when the result has an error,
\* else the next turn of the loop.
afterSend(w) ==
  IF w.res.err # "nil" THEN GorAt("exited")
  ELSE [GorAt("top") EXCEPT !.cancelled = w.cancelled]

\* run: `w.resultCh <- result`; the worker returns after an error and goes
\* back to the loop head otherwise.
WorkerSend(g) ==
  /\ gor[g].pc = "send"
  /\ Len(resultCh) < chanCap
  /\ resultCh' = resultSend(resultCh, gor[g].res)
  /\ nResults' = [nResults EXCEPT
                    ![gor[g].task] = @ + Len(resultCh') - Len(resultCh)]
  /\ gor' = [gor EXCEPT ![g] = afterSend(gor[g])]
  /\ UNCHANGED <<cfgVars, envVars, dpc, loopVars, waitVars, taskCh,
                 taskChClosed, poolVars, delivered, took, drainedIds, nRead,
                 updCalls, updArg, persistLog, taskLog, obs, kpVars>>

WorkerNext(g) ==
  \/ WorkerTop(g)
  \/ WorkerRecv(g)
  \/ WorkerRecvClosed(g)
  \/ WorkerBatch(g)
  \/ WorkerBatchErr(g)
  \/ WorkerPanic(g)
  \/ WorkerNotRunnable(g)
  \/ WorkerSend(g)

\* ----------------------------------------------------------------- driver
NoHist == [id \in 0..(MaxChanSize + 1) |-> 0]

NoDelivered == [id \in 0..(MaxChanSize + 1) |-> NoResult]

\* Nothing observed yet: seen is the worker count the last adjustWorkerSize
\* read, reads the results waitTaskResults read since that call; adjI, adjWs
\* and adjCalled describe the last result without error (its loop index,
\* workerSize() in the test on it, and whether adjustWorkerSize was called);
\* drvCheck is what isReorgRunnable told sendTasksAndWait; errSeq has the
\* results with an error in the order waitTaskResults read them.  rcRows is
\* what the workers added to the reorg context's row count since the batch
\* began, totalAdded what waitTaskResults added to *totalAddedCount.
NoObs == [seen |-> 0, reads |-> 0, adjI |-> -1, adjWs |-> 0,
          adjCalled |-> FALSE, drvCheck |-> "none", errSeq |-> << >>,
          rcRows |-> 0, totalAdded |-> 0]

\* scheduler.Close up to wg.Wait(): cancel the workers and close taskCh.
\* The driver then waits in "closing" until every worker has returned.
CloseScheduler ==
  /\ gor' = closeBackfillWorkers(SeqRange(workers), gor)
  /\ taskChClosed' = TRUE

\* `if startKey == nil && endKey == nil { return nil }`
nothingToDo(start, end) == start = NilKey /\ end = NilKey

\* writePhysicalTableRecord up to its loop: the isReorgRunnable check, the
\* return for a range without keys, and newBackfillScheduler.
DriverStart ==
  /\ dpc = "start"
  /\ IF ~runnable
     THEN /\ dpc' = "failed"
          /\ retErr' = "ErrCancelled"
     ELSE IF nothingToDo(startKey, endKey)
     THEN /\ dpc' = "done"
          /\ retErr' = "nil"
     ELSE /\ dpc' = "split"
          /\ retErr' = "nil"
  /\ UNCHANGED <<cfgVars, envVars, startKey, kvRanges, batchTasks, sent,
                 persisted, waitVars, chanVars, poolVars, gor, histVars,
                 kpVars>>

\* The loop of writePhysicalTableRecord down to handleRangeTasks' call of
\* sendTasksAndWait: splitTableRanges, setMaxWorkerSize, adjustWorkerSize
\* and getBatchTasks.
DriverSplit ==
  /\ dpc = "split"
  /\ LET ranges == splitTableRanges(startKey, endKey, backfillTaskChanSize)
         pool   == adjustWorkerSize(workers, gor, Len(ranges))
         tasks  == getBatchTasks(ranges, backfillTaskChanSize)
     IN /\ kvRanges' = ranges
        /\ batchTasks' = tasks
        /\ IF Len(ranges) = 0
           THEN \* `if len(kvRanges) == 0 { break }`
                /\ dpc' = "closing"
                /\ CloseScheduler
                /\ UNCHANGED <<workers, maxWorkerSize, obs>>
           ELSE /\ maxWorkerSize' = Len(ranges)
                /\ workers' = pool.workers
                /\ gor' = pool.gor
                /\ obs' = [NoObs EXCEPT !.seen = reorgWorkerCnt]
                /\ dpc' = "send"
                /\ UNCHANGED taskChClosed
  /\ sent' = 0
  /\ delivered' = NoDelivered
  /\ took' = NoHist
  /\ nResults' = NoHist
  /\ drainedIds' = {}
  /\ nRead' = 0
  /\ updCalls' = 0
  /\ UNCHANGED <<cfgVars, envVars, startKey, retErr, persisted, waitVars,
                 taskCh, resultCh, updArg, persistLog, taskLog, kpVars>>

\* The region cache fails (rc.SplitRegionRanges returns an error) or finds no
\* region in the span (it returns no range).  Whatever error
\* splitTableRanges makes of it, writePhysicalTableRecord returns it; with
\* no error and no range it leaves its loop.  The deferred Close runs.
DriverSplitErr ==
  /\ dpc = "split"
  /\ storeIsTikv
  /\ errBudget > 0
  /\ errBudget' = errBudget - 1
  /\ \E cacheFails \in BOOLEAN :
       retErr' = IF cacheFails THEN "ErrSplit"
                 ELSE splitTableRangesOf(startKey, endKey, << >>).err
  /\ dpc' = "closing"
  /\ CloseScheduler
  /\ UNCHANGED <<cfgVars, reorgWorkerCnt, runnable, cfgBudget, startKey,
                 kvRanges, batchTasks, sent, persisted, waitVars, taskCh,
                 resultCh, poolVars, histVars, kpVars>>

\* A send that puts the task on the channel twice.
pushTaskTwice(ch, task) == Append(Append(ch, task.id), task.id)

\* What `scheduler.taskCh <- task` leaves in a channel holding ch.
pushTask(ch, task) == Append(ch, task.id)

\* The keeper waitTaskResults creates for a batch; kp is the keeper of the
\* batch before.
keeperForBatch(kp, tasks) == newDoneTaskKeeper(tasks[1].startKey)

\* sendTasksAndWait: `scheduler.taskCh <- task` for the next task of the
\* batch; after the last one waitTaskResults begins (a new keeper at the
\* first task's start key, taskSize = len(batchTasks)).
DriverSend ==
  /\ dpc = "send"
  /\ sent < Len(batchTasks)
  /\ Len(taskCh) < chanCap
  /\ taskCh' = pushTask(taskCh, batchTasks[sent + 1])
  /\ sent' = sent + 1
  /\ IF sent + 1 = Len(batchTasks)
     THEN /\ dpc' = "wait"
          /\ keeper' = keeperForBatch(keeper, batchTasks)
          /\ taskSize' = Len(batchTasks)
          /\ i' = 0
          /\ firstErr' = "nil"
          /\ cnt' = 0
     ELSE UNCHANGED <<dpc, waitVars>>
  /\ UNCHANGED <<cfgVars, envVars, startKey, kvRanges, batchTasks, retErr,
                 persisted, resultCh, taskChClosed, poolVars, gor, histVars,
                 kpVars>>

\* A waitTaskResults that never adjusts the worker size.
adjustDueNever(idx, workerSize) == FALSE

\* Whether waitTaskResults adjusts the worker size after the result read at
\* loop index idx: the Go expression i%scheduler.workerSize()*4 == 0.
adjustDue(idx, workerSize) == (idx % workerSize) * 4 = 0

\* The keeper after waitTaskResults handled a result without error.
keeperAfter(kp, result) == updateNextKey(kp, result.taskID, result.nextKey)

\* waitTaskResults: `result := <-scheduler.resultCh` and the loop body for a
\* result without error: the keeper takes it and the worker size is
\* adjusted when due.
DriverRecvOk ==
  /\ dpc = "wait"
  /\ i < taskSize
  /\ resultCh # << >>
  /\ Head(resultCh).err = "nil"
  /\ LET result == Head(resultCh) IN
       /\ keeper' = keeperAfter(keeper, result)
       /\ delivered' = [delivered EXCEPT ![result.taskID] = result]
       /\ taskLog' = taskLog \cup {[startKey |-> TaskOf(result.taskID).startKey,
                                    nextKey |-> result.nextKey]}
  /\ resultCh' = Tail(resultCh)
  /\ nRead' = nRead + 1
  /\ IF adjustDue(i, Len(workers))
     THEN LET pool == adjustWorkerSize(workers, gor, maxWorkerSize) IN
            /\ workers' = pool.workers
            /\ gor' = pool.gor
            /\ obs' = [obs EXCEPT !.seen = reorgWorkerCnt, !.reads = 0,
                                  !.adjI = i, !.adjWs = Len(workers),
                                  !.adjCalled = TRUE,
                                  !.totalAdded = @ + Head(resultCh).addedCount]
     ELSE /\ obs' = [obs EXCEPT !.reads = @ + 1, !.adjI = i,
                                !.adjWs = Len(workers), !.adjCalled = FALSE,
                                !.totalAdded = @ + Head(resultCh).addedCount]
          /\ UNCHANGED <<workers, gor>>
  /\ i' = i + 1
  /\ UNCHANGED <<cfgVars, envVars, dpc, loopVars, taskSize, firstErr, cnt,
                 taskCh, taskChClosed, maxWorkerSize, took, nResults,
                 drainedIds, updCalls, updArg, persistLog, kpVars>>

\* A loop body that lets the keeper take the result with an error too.
keeperFedOnErr(kp, result) == updateNextKey(kp, result.taskID, result.nextKey)

\* The keeper after waitTaskResults handled a result with an error: the
\* `continue` skips updateNextKey.
keeperOnErr(kp, result) == kp

\* A loop that stops at the first error instead of waiting for the tasks in
\* flight.
taskSizeBreak(size, drained) == 0

\* taskSize after drainTasks returned: `taskSize -= cnt`.
taskSizeAfterDrain(size, drained) == size - drained

\* A loop that counts the rows of a failed result too.
totalAddedWithFailed(total, result) == total + result.addedCount

\* *totalAddedCount after a result with an error: the `continue` skips the
\* two additions.
totalAddedOnErr(total, result) == total

\* A loop that keeps the error of the last failed result.
lastErrAfter(first, err) == err

\* `if firstErr == nil { firstErr = result.err }`
firstErrAfter(first, err) == IF first = "nil" THEN err ELSE first

\* waitTaskResults: a result with an error: firstErr keeps the first one and
\* drainTasks begins.
DriverRecvErr ==
  /\ dpc = "wait"
  /\ i < taskSize
  /\ resultCh # << >>
  /\ Head(resultCh).err # "nil"
  /\ firstErr' = firstErrAfter(firstErr, Head(resultCh).err)
  /\ delivered' = [delivered EXCEPT ![Head(resultCh).taskID] = Head(resultCh)]
  /\ resultCh' = Tail(resultCh)
  /\ nRead' = nRead + 1
  /\ keeper' = keeperOnErr(keeper, Head(resultCh))
  /\ cnt' = 0
  /\ obs' = [obs EXCEPT !.reads = @ + 1,
                        !.errSeq = Append(@, [taskID |-> Head(resultCh).taskID,
                                              err |-> Head(resultCh).err]),
                        !.totalAdded = totalAddedOnErr(@, Head(resultCh))]
  /\ dpc' = "drainLen"
  /\ UNCHANGED <<cfgVars, envVars, loopVars, i, taskSize, taskCh,
                 taskChClosed, poolVars, gor, took, nResults, drainedIds,
                 updCalls, updArg, persistLog, taskLog, kpVars>>

\* drainTasks: the loop test len(taskCh) > 0; when it fails drainTasks
\* returns cnt, and waitTaskResults does taskSize -= cnt and continues.
DriverDrainLen ==
  /\ dpc = "drainLen"
  /\ IF Len(taskCh) > 0
     THEN /\ dpc' = "drainRecv"
          /\ UNCHANGED <<i, taskSize>>
     ELSE /\ dpc' = "wait"
          /\ taskSize' = taskSizeAfterDrain(taskSize, cnt)
          /\ i' = i + 1
  /\ UNCHANGED <<cfgVars, envVars, loopVars, firstErr, cnt, keeper, chanVars,
                 poolVars, gor, histVars, kpVars>>

\* drainTasks: `<-taskCh; cnt++`.  The receive waits for a task.
DriverDrainRecv ==
  /\ dpc = "drainRecv"
  /\ taskCh # << >>
  /\ taskCh' = Tail(taskCh)
  /\ drainedIds' = drainedIds \cup {Head(taskCh)}
  /\ cnt' = cnt + 1
  /\ dpc' = "drainLen"
  /\ UNCHANGED <<cfgVars, envVars, loopVars, i, taskSize, firstErr, keeper,
                 resultCh, taskChClosed, poolVars, gor, delivered, took,
                 nResults, nRead, updCalls, updArg, persistLog, taskLog, obs,
                 kpVars>>

\* What sendTasksAndWait learns from isReorgRunnable after waitTaskResults
\* returned err: nothing when err is not nil (the call is skipped).
runnableCheck(err) ==
  IF err # "nil" THEN "none" ELSE IF runnable THEN "ok" ELSE "err"

\* What isReorgRunnable adds to the error of waitTaskResults in
\* sendTasksAndWait: it is asked only when that error is nil.
errAfterWait(err) ==
  IF err = "nil" /\ ~runnable THEN "ErrCancelled" ELSE err

\* A sendTasksAndWait that returns the error of UpdateReorgMeta when it has
\* no other.
errAfterUpdateReported(err, stored) ==
  IF err = "nil" /\ ~stored THEN "ErrUpdateReorgMeta" ELSE err

\* The error sendTasksAndWait returns after UpdateReorgMeta: err, whatever
\* the call returned (err1 is only logged).
errAfterUpdate(err, stored) == err

\* An UpdateReorgMeta whose failure loses the key stored before.
UpdateReorgMetaTorn(old, key, stored) == IF stored THEN key ELSE NilKey

\* The durable resume key after reorgInfo.UpdateReorgMeta(key, ...): the key
\* when it is stored, the old one when the call fails.
UpdateReorgMeta(old, key, stored) == IF stored THEN key ELSE old

\* A sendTasksAndWait that returns the error at once and calls
\* UpdateReorgMeta on the success path only.
PersistStepOnlyOk(stored) ==
  /\ dpc = "wait"
  /\ i >= taskSize
  /\ retErr' = errAfterWait(firstErr)
  /\ obs' = [obs EXCEPT !.drvCheck = runnableCheck(firstErr)]
  /\ IF retErr' = "nil"
     THEN /\ persisted' = UpdateReorgMeta(persisted, keeper.nextKey, stored)
          /\ updCalls' = updCalls + 1
          /\ updArg' = keeper.nextKey
          /\ persistLog' = Append(persistLog, [startKey |-> startKey,
                                               nextKey |-> keeper.nextKey,
                                               stored |-> stored])
     ELSE UNCHANGED <<persisted, updCalls, updArg, persistLog>>
  /\ dpc' = "ret"

\* sendTasksAndWait after waitTaskResults returned (its loop index reached
\* taskSize): the isReorgRunnable check and the call
\* reorgInfo.UpdateReorgMeta(nextKey, ...) with the keeper's nextKey, which
\* makes the key durable when stored is TRUE and fails otherwise.
PersistStep(stored) ==
  /\ dpc = "wait"
  /\ i >= taskSize
  /\ retErr' = errAfterUpdate(errAfterWait(firstErr), stored)
  /\ obs' = [obs EXCEPT !.drvCheck = runnableCheck(firstErr)]
  /\ persisted' = UpdateReorgMeta(persisted, keeper.nextKey, stored)
  /\ updCalls' = updCalls + 1
  /\ updArg' = keeper.nextKey
  /\ persistLog' = Append(persistLog, [startKey |-> startKey,
                                       nextKey |-> keeper.nextKey,
                                       stored |-> stored])
  /\ dpc' = "ret"

DriverPersist ==
  /\ PersistStep(TRUE)
  /\ UNCHANGED <<cfgVars, envVars, startKey, kvRanges, batchTasks, sent,
                 waitVars, chanVars, poolVars, gor, delivered, took, nResults,
                 drainedIds, nRead, taskLog, kpVars>>

\* The same step when UpdateReorgMeta returns an error (err1, only logged).
DriverPersistErr ==
  /\ errBudget > 0
  /\ errBudget' = errBudget - 1
  /\ PersistStep(FALSE)
  /\ UNCHANGED <<cfgVars, reorgWorkerCnt, runnable, cfgBudget, startKey,
                 kvRanges, batchTasks, sent, waitVars, chanVars, poolVars, gor,
                 delivered, took, nResults, drainedIds, nRead, taskLog,
                 kpVars>>

\* A next round that starts at the end of the last range, not after it.
nextStartKeyAtEnd(ranges, tasks) ==
  IF Len(tasks) < Len(ranges)
  THEN ranges[Len(tasks) + 1].StartKey
  ELSE ranges[Len(ranges)].EndKey

\* A loop that starts every round where the last one started.
nextStartKeySame(ranges, tasks) == ranges[1].StartKey

\* The startKey of the next round: remains[0].StartKey when handleRangeTasks
\* returned ranges it did not handle, else the Next() of the last range's end.
nextStartKey(ranges, tasks) ==
  IF Len(tasks) < Len(ranges)
  THEN ranges[Len(tasks) + 1].StartKey
  ELSE KeyNext(ranges[Len(ranges)].EndKey)

\* sendTasksAndWait returns; handleRangeTasks returns the remaining ranges
\* or the error; writePhysicalTableRecord returns the error, or moves
\* startKey and leaves its loop when startKey >= endKey.  On return the
\* deferred scheduler.Close runs.
DriverReturn ==
  /\ dpc = "ret"
  /\ IF retErr # "nil"
     THEN /\ dpc' = "closing"
          /\ CloseScheduler
          /\ UNCHANGED startKey
     ELSE /\ startKey' = nextStartKey(kvRanges, batchTasks)
          /\ IF startKey' >= endKey
             THEN /\ dpc' = "closing"
                  /\ CloseScheduler
             ELSE /\ dpc' = "split"
                  /\ UNCHANGED <<gor, taskChClosed>>
  /\ UNCHANGED <<cfgVars, envVars, kvRanges, batchTasks, sent, retErr,
                 persisted, waitVars, taskCh, resultCh, poolVars, histVars,
                 kpVars>>

\* scheduler.Close after wg.Wait(): every worker has returned, resultCh is
\* closed and writePhysicalTableRecord returns.
DriverClosed ==
  /\ dpc = "closing"
  /\ \A g \in Goroutines : gor[g].pc \in {"none", "exited"}
  /\ dpc' = IF retErr = "nil" THEN "done" ELSE "failed"
  /\ UNCHANGED <<cfgVars, envVars, loopVars, waitVars, chanVars, poolVars,
                 gor, histVars, kpVars>>

DriverNext ==
  \/ DriverStart
  \/ DriverSplit
  \/ DriverSplitErr
  \/ DriverSend
  \/ DriverRecvOk
  \/ DriverRecvErr
  \/ DriverDrainLen
  \/ DriverDrainRecv
  \/ DriverPersist
  \/ DriverPersistErr
  \/ DriverReturn
  \/ DriverClosed

\* ------------------------------------------------------------ environment
Running == dpc \notin {"done", "failed"}

\* The job is cancelled (or times out, or the node loses ownership): from now
\* on isReorgRunnable returns an error.
EnvCancel ==
  /\ Running
  /\ runnable
  /\ runnable' = FALSE
  /\ UNCHANGED <<cfgVars, reorgWorkerCnt, errBudget, cfgBudget, dpc, loopVars,
                 waitVars, chanVars, poolVars, gor, histVars, kpVars>>

\* tidb_ddl_reorg_worker_cnt is set to another value.
EnvSetWorkerCnt(n) ==
  /\ Running
  /\ cfgBudget > 0
  /\ n # reorgWorkerCnt
  /\ reorgWorkerCnt' = n
  /\ cfgBudget' = cfgBudget - 1
  /\ UNCHANGED <<cfgVars, runnable, errBudget, dpc, loopVars, waitVars,
                 chanVars, poolVars, gor, histVars, kpVars>>

EnvNext ==
  \/ EnvCancel
  \/ \E n \in 1..MaxWorkerCnt : EnvSetWorkerCnt(n)

\* --------------------------------------------------------- specifications
\* The part of the initial state that no choice of input changes.
InitRun ==
  /\ runnable = TRUE
  /\ persisted = startKey
  /\ dpc = "start"
  /\ kvRanges = << >>
  /\ batchTasks = << >>
  /\ sent = 0
  /\ retErr = "nil"
  /\ i = 0
  /\ taskSize = 0
  /\ firstErr = "nil"
  /\ cnt = 0
  /\ keeper = newDoneTaskKeeper(startKey)
  /\ taskCh = << >>
  /\ resultCh = << >>
  /\ taskChClosed = FALSE
  /\ workers = << >>
  /\ maxWorkerSize = 0
  /\ gor = [g \in Goroutines |-> GorAt("none")]
  /\ delivered = NoDelivered
  /\ took = NoHist
  /\ nResults = NoHist
  /\ drainedIds = {}
  /\ nRead = 0
  /\ updCalls = 0
  /\ updArg = NilKey
  /\ persistLog = << >>
  /\ taskLog = {}
  /\ obs = NoObs
  /\ kpN = 0
  /\ kpKeys = << >>
  /\ kpStart = NilKey
  /\ kpFed = {}
  /\ kpHist = << >>
  /\ hw = NoTask

\* A run over the table [1, MaxKey], on a region-aware store or on one that
\* is not, with every fault and every configuration change the bounds allow.
Init ==
  /\ startKey = 1
  /\ endKey = MaxKey
  /\ rows \in {1..MaxKey, {1, MaxKey}}
  /\ regionBounds \in SUBSET (2..(MaxKey - 1))
  /\ storeIsTikv \in BOOLEAN
  /\ lookupErr = {}
  /\ backfillTaskChanSize \in 2..MaxChanSize
  /\ reorgWorkerCnt \in 1..MaxWorkerCnt
  /\ errBudget = MaxErrs
  /\ cfgBudget = MaxCfgChanges
  /\ InitRun

Next ==
  \/ DriverNext
  \/ \E g \in Goroutines : WorkerNext(g)
  \/ EnvNext

Spec == Init /\ [][Next]_vars

\* The same runs under the scheduling the Go runtime gives: the driver and
\* every worker goroutine keep taking steps while they can.
FairSpec ==
  /\ Spec
  /\ WF_vars(DriverNext)
  /\ \A g \in Goroutines : WF_vars(WorkerNext(g))

\* The runs without any error: BackfillData, the region cache and
\* UpdateReorgMeta never fail and the job stays runnable; over every table,
\* region map and store the bounds allow.
InitOk ==
  /\ startKey = 1
  /\ endKey = MaxKey
  /\ rows \in SUBSET (1..MaxKey)
  /\ regionBounds \in SUBSET (2..(MaxKey - 1))
  /\ storeIsTikv \in BOOLEAN
  /\ lookupErr \in {{}} \cup {{k} : k \in 2..MaxKey}
  /\ backfillTaskChanSize \in 1..MaxChanSize
  /\ reorgWorkerCnt \in 1..MaxWorkerCnt
  /\ errBudget = 0
  /\ cfgBudget = 0
  /\ InitRun

NextOk ==
  \/ DriverStart
  \/ DriverSplit
  \/ DriverSend
  \/ DriverRecvOk
  \/ DriverPersist
  \/ DriverReturn
  \/ DriverClosed
  \/ \E g \in Goroutines :
       \/ WorkerTop(g)
       \/ WorkerRecv(g)
       \/ WorkerRecvClosed(g)
       \/ WorkerBatch(g)
       \/ WorkerSend(g)

SpecOk == InitOk /\ [][NextOk]_vars

\* The runs without any error under the scheduling the Go runtime gives:
\* the driver and every worker goroutine keep taking steps while they can.
\* Over an empty, a sparse and a full table, every region map and both
\* kinds of store.
InitFairOk ==
  /\ startKey = 1
  /\ endKey = MaxKey
  /\ rows \in {{}, {1, MaxKey}, 1..MaxKey}
  /\ regionBounds \in SUBSET (2..(MaxKey - 1))
  /\ storeIsTikv \in BOOLEAN
  /\ lookupErr = {}
  /\ backfillTaskChanSize \in 1..MaxChanSize
  /\ reorgWorkerCnt \in 1..MaxWorkerCnt
  /\ errBudget = 0
  /\ cfgBudget = 0
  /\ InitRun

FairSpecOk ==
  /\ InitFairOk
  /\ [][NextOk]_vars
  /\ WF_vars(DriverNext)
  /\ \A g \in Goroutines : WF_vars(WorkerNext(g))

\* The runs without any error whose reorgInfo has StartKey = EndKey: both
\* nil, or both the one key k, over a table with or without a record at k.
InitEmpty ==
  /\ startKey \in Keys \cup {NilKey}
  /\ endKey = startKey
  /\ rows \in {{}, {startKey} \cap Keys}
  /\ regionBounds = {}
  /\ storeIsTikv \in BOOLEAN
  /\ lookupErr = {}
  /\ backfillTaskChanSize \in 1..MaxChanSize
  /\ reorgWorkerCnt \in 1..MaxWorkerCnt
  /\ errBudget = 0
  /\ cfgBudget = 0
  /\ InitRun

SpecEmpty == InitEmpty /\ [][NextOk]_vars

\* ------------------------------------------- the keeper on its own
\* The pipeline at rest, for the runs that exercise the keeper alone.
KeeperOnly ==
  /\ rows = {}
  /\ regionBounds = {}
  /\ storeIsTikv = FALSE
  /\ lookupErr = {}
  /\ backfillTaskChanSize = 1
  /\ reorgWorkerCnt = 1
  /\ runnable = TRUE
  /\ errBudget = 0
  /\ cfgBudget = 0
  /\ endKey = NilKey
  /\ persisted = NilKey
  /\ dpc = "idle"
  /\ startKey = NilKey
  /\ kvRanges = << >>
  /\ batchTasks = << >>
  /\ sent = 0
  /\ retErr = "nil"
  /\ i = 0
  /\ taskSize = 0
  /\ firstErr = "nil"
  /\ cnt = 0
  /\ taskCh = << >>
  /\ resultCh = << >>
  /\ taskChClosed = FALSE
  /\ workers = << >>
  /\ maxWorkerSize = 0
  /\ gor = [g \in Goroutines |-> GorAt("none")]
  /\ delivered = NoDelivered
  /\ took = NoHist
  /\ nResults = NoHist
  /\ drainedIds = {}
  /\ nRead = 0
  /\ updCalls = 0
  /\ updArg = NilKey
  /\ persistLog = << >>
  /\ taskLog = {}
  /\ obs = NoObs

\* A batch of kpN tasks with arbitrary next keys, none fed yet.
InitKeeper ==
  /\ kpN \in 1..MaxKeeperTasks
  /\ kpKeys \in [0..(kpN - 1) -> Keys]
  /\ kpStart \in Keys
  /\ kpFed = {}
  /\ kpHist = << >>
  /\ keeper = newDoneTaskKeeper(kpStart)
  /\ hw = NoTask
  /\ KeeperOnly

\* One call updateNextKey(id, k_id), for an id not fed before.
KeeperFeed(id) ==
  /\ id \notin kpFed
  /\ keeper' = updateNextKey(keeper, id, kpKeys[id])
  /\ kpFed' = kpFed \cup {id}
  /\ kpHist' = Append(kpHist, [id |-> id, nextKey |-> keeper'.nextKey])
  /\ UNCHANGED <<kpN, kpKeys, kpStart, hw>>
  /\ UNCHANGED <<cfgVars, envVars, dpc, loopVars, i, taskSize, firstErr, cnt,
                 chanVars, poolVars, gor, histVars>>

NextKeeper == \E id \in 0..(kpN - 1) : KeeperFeed(id)

SpecKeeper == InitKeeper /\ [][NextKeeper]_vars

\* ------------------------------------------------- one worker, one task
\* The largest end key of the task the stand-alone worker is given.
MaxTaskEnd == 3

\* The largest value of ddl_reorg_batch_size.
MaxBatchSize == 2

\* updateInstanceLease, in the time steps of the model.
updateInstanceLease == 2

\* What bf.BackfillData may return for a range starting at start, ending
\* before excl, with at most batchCnt rows per batch: it moves n keys on,
\* scans at most batchCnt rows on the way and adds all or none of them.
backfillDataResults(start, excl, batchCnt) ==
  UNION { { [nextKey |-> start + n, done |-> (start + n = excl),
             addedCount |-> a * sc, scanCount |-> sc] :
              sc \in 1..Min(batchCnt, n), a \in 0..1 } :
          n \in 1..(excl - start) }

\* The worker is handed the task: run (dist = FALSE) or runTask
\* (dist = TRUE, the task has a bfJob), with the batchCnt the previous task
\* left in the worker's context.  elapsed is time.Since(batchStartTime), as
\* far as it matters: up to updateInstanceLease; leaseLog has the UpdateTask
\* calls.
HwAtTask(dist, task, batchCnt, cfg) ==
  [pc |-> "top", dist |-> dist, task |-> task, batchCnt |-> batchCnt,
   reorgBatchSize |-> cfg, cfgLeft |-> MaxCfgChanges,
   handleStart |-> NilKey, result |-> newResult(task), calls |-> << >>,
   rowCount |-> 0, loopErr |-> "none", finErr |-> "none", finCalls |-> 0,
   elapsed |-> 0, leaseLog |-> << >>,
   bfJob |-> [State |-> "Running", Error |-> "nil", RowCount |-> 0,
              CurrKey |-> NilKey]]

\* The stand-alone worker's steps leave the pipeline alone.
HwOnly ==
  UNCHANGED <<cfgVars, envVars, dpc, loopVars, waitVars, chanVars, poolVars,
              gor, histVars, kpN, kpKeys, kpStart, kpFed, kpHist>>

\* `w.GetCtx().batchCnt = int(variable.GetDDLReorgBatchSize())` and the
\* entry of handleBackfillTask down to its loop.
HwStart ==
  /\ HwOnly
  /\ hw.pc = "top"
  /\ hw' = [hw EXCEPT !.pc = "loop",
                      !.batchCnt = hw.reorgBatchSize,
                      !.result = newResult(hw.task),
                      !.elapsed = 0,
                      !.handleStart = hw.task.startKey]

\* A batch: isReorgRunnable returns nil and BackfillData returns taskCtx
\* after some time.  The result is merged, the row count of the reorg
\* context grows and the range moves on; the loop ends when the batch is
\* done.
HwBatch ==
  /\ HwOnly
  /\ hw.pc = "loop"
  /\ \E taskCtx \in backfillDataResults(hw.handleStart,
                      excludedEndKey(hw.task), hw.batchCnt),
        dt \in 0..updateInstanceLease :
       hw' = [hw EXCEPT
            !.elapsed = Min(@ + dt, updateInstanceLease),
            !.result = mergeBackfillCtxToResult(taskCtx, hw.result),
            !.rowCount = increaseRowCount(@, taskCtx.addedCount),
            !.handleStart = taskCtx.nextKey,
            !.calls = Append(@, [start |-> hw.handleStart,
                                 batchCnt |-> hw.batchCnt,
                                 cfg |-> hw.reorgBatchSize,
                                 nextKey |-> taskCtx.nextKey,
                                 done |-> taskCtx.done,
                                 addedCount |-> taskCtx.addedCount,
                                 scanCount |-> taskCtx.scanCount,
                                 err |-> "nil"]),
            !.pc = IF taskCtx.done THEN "after"
                   ELSE IF hw.dist THEN "lease" ELSE "loop"]

\* A batch whose BackfillData returns an error.
HwBatchErr ==
  /\ HwOnly
  /\ hw.pc = "loop"
  /\ \E e \in {"ErrBackfill", "ErrDDLJobNotFound"} :
       hw' = [hw EXCEPT
            !.result.err = e,
            !.calls = Append(@, [start |-> hw.handleStart,
                                 batchCnt |-> hw.batchCnt,
                                 cfg |-> hw.reorgBatchSize,
                                 nextKey |-> NilKey, done |-> FALSE,
                                 addedCount |-> 0, scanCount |-> 0,
                                 err |-> e]),
            !.pc = "after"]

\* isReorgRunnable returns an error at the head of the loop.
HwNotRunnable ==
  /\ HwOnly
  /\ hw.pc = "loop"
  /\ hw' = [hw EXCEPT !.result.err = "ErrCancelled", !.pc = "after"]

\* A lease that is refreshed after every batch.
leaseDueAlways(elapsed) == TRUE

\* `if time.Since(batchStartTime) < updateInstanceLease { continue }`
leaseDue(elapsed) == ~(elapsed < updateInstanceLease)

\* `batchStartTime = time.Now()` and w.updateLease(uuid, bfJob,
\* result.nextKey) with the outcome out: GetOracleTime fails, or the key is
\* stored in the bfJob and UpdateTask succeeds or fails.  An error ends
\* handleBackfillTask.
updateLease(h, out) ==
  LET h0 == [h EXCEPT !.elapsed = 0]
      h1 == [h0 EXCEPT !.bfJob.CurrKey = h.result.nextKey,
                       !.leaseLog = Append(@, [CurrKey |-> h.result.nextKey,
                                               batch |-> Len(h.calls),
                                               elapsed |-> h.elapsed,
                                               err |-> out])]
  IN IF out = "ErrOracle"
     THEN [h0 EXCEPT !.pc = "after", !.result.err = out]
     ELSE IF out = "nil"
     THEN [h1 EXCEPT !.pc = "loop"]
     ELSE [h1 EXCEPT !.pc = "after", !.result.err = out]

\* The end of the loop body for a task with a bfJob: the lease is not yet
\* due, or updateLease runs.
HwLease ==
  /\ HwOnly
  /\ hw.pc = "lease"
  /\ IF ~leaseDue(hw.elapsed)
     THEN hw' = [hw EXCEPT !.pc = "loop"]
     ELSE \E out \in {"nil", "ErrOracle", "ErrUpdateTask"} :
            hw' = updateLease(hw, out)

\* run after handleBackfillTask: the result goes to the result channel.
HwRunSend ==
  /\ HwOnly
  /\ hw.pc = "after"
  /\ ~hw.dist
  /\ hw' = [hw EXCEPT !.pc = "ret", !.loopErr = hw.result.err]

\* runTask after handleBackfillTask, when finishJob (if called) returns fin.
runTaskEnd(h, fin) ==
  LET h1 == [h EXCEPT !.loopErr = h.result.err,
                      !.bfJob.RowCount = h.result.addedCount,
                      !.pc = "ret"]
  IN IF h.result.err # "nil"
     THEN IF h.result.err = "ErrDDLJobNotFound"
          THEN [h1 EXCEPT !.result.err = "nil"]
          ELSE [h1 EXCEPT !.bfJob.State = "Cancelled",
                          !.bfJob.Error = h.result.err,
                          !.finCalls = @ + 1,
                          !.finErr = fin,
                          !.result.err = IF fin # "nil" THEN fin ELSE @]
     ELSE [h1 EXCEPT !.bfJob.State = "Done",
                     !.finCalls = @ + 1,
                     !.finErr = fin,
                     !.result.err = fin]

HwRunTaskEnd ==
  /\ HwOnly
  /\ hw.pc = "after"
  /\ hw.dist
  /\ \E fin \in {"nil", "ErrDDLJobNotFound", "ErrFinish"} :
       hw' = runTaskEnd(hw, fin)

\* ddl_reorg_batch_size is set to another value while the task runs.
HwSetBatchSize ==
  /\ HwOnly
  /\ hw.pc \in {"top", "loop", "lease"}
  /\ hw.cfgLeft > 0
  /\ \E b \in (1..MaxBatchSize) \ {hw.reorgBatchSize} :
       hw' = [hw EXCEPT !.reorgBatchSize = b, !.cfgLeft = @ - 1]

InitWorker ==
  /\ hw \in { HwAtTask(dist, [id |-> 0, startKey |-> 1, endKey |-> e,
                               endInclude |-> inc], b, cfg) :
                 dist \in BOOLEAN, e \in 2..MaxTaskEnd, inc \in BOOLEAN,
                 b \in 1..MaxBatchSize, cfg \in 1..MaxBatchSize }
  /\ kpN = 0
  /\ kpKeys = << >>
  /\ kpStart = NilKey
  /\ kpFed = {}
  /\ kpHist = << >>
  /\ keeper = newDoneTaskKeeper(NilKey)
  /\ KeeperOnly

NextWorker ==
  \/ HwStart
  \/ HwBatch
  \/ HwBatchErr
  \/ HwNotRunnable
  \/ HwLease
  \/ HwRunSend
  \/ HwRunTaskEnd
  \/ HwSetBatchSize

SpecWorker == InitWorker /\ [][NextWorker]_vars

\* The number of leading ids 0, 1, ... that are all in the set fed.
RECURSIVE PrefixLen(_, _)
PrefixLen(fed, j) == IF j \in fed THEN PrefixLen(fed, j + 1) ELSE j

\* C1: after every single update of a batch fed in any order, nextKey is the
\* key k_j of the largest j with all of 0..j fed (the batch start key while id
\* 0 is missing), and after all n updates nextKey = k_{n-1} and the stash map
\* is empty.
C1_KeeperInOrderPrefix ==
  LET p == PrefixLen(kpFed, 0) IN
    /\ keeper.nextKey = IF p = 0 THEN kpStart ELSE kpKeys[p - 1]
    /\ keeper.current = p
    /\ DOMAIN keeper.doneTaskNextKey = {id \in kpFed : id > p}
    /\ kpFed = 0..(kpN - 1) =>
         /\ keeper.nextKey = kpKeys[kpN - 1]
         /\ keeper.doneTaskNextKey = EmptyMap

\* A batch of three fed out of order: 2 and 1 were stashed before 0 arrived.
C1_Witness ==
  /\ kpN = 3
  /\ kpFed = {0, 1, 2}
  /\ keeper.current = 3
  /\ kpKeys[0] # kpKeys[2]
  /\ kpStart # kpKeys[2]
  /\ keeper.nextKey = kpKeys[2]

\* ------------------------------------------------- the batch in progress
TaskIds == 0..(Len(batchTasks) - 1)

\* The driver read a result without error for task id.
DeliveredOk(id) == delivered[id].taskID = id /\ delivered[id].err = "nil"

\* The driver read a result with an error for task id.
DeliveredErr(id) == delivered[id].taskID = id /\ delivered[id].err # "nil"

\* The number of leading task ids 0, 1, ... whose results arrived without
\* error.
RECURSIVE OkPrefixLen(_)
OkPrefixLen(j) ==
  IF j < Len(batchTasks) /\ DeliveredOk(j) THEN OkPrefixLen(j + 1) ELSE j

\* The key of the longest in-order prefix of successes.
OkPrefixKey ==
  IF OkPrefixLen(0) = 0 THEN batchTasks[1].startKey
  ELSE delivered[OkPrefixLen(0) - 1].nextKey

\* waitTaskResults has returned and sendTasksAndWait has not yet.
WaitReturned == (dpc = "wait" /\ i >= taskSize) \/ dpc = "ret"

\* The goroutines that hold a task.
Busy == {g \in Goroutines : gor[g].pc \in {"run", "send"}}

\* C2: the key sendTasksAndWait passes to UpdateReorgMeta is the start key of
\* the batch's task 0 or the final nextKey of a task j such that every task
\* 0..j delivered a result without error; a failed result's nextKey is never
\* the source of the key.
C2_PersistedKeyFromOkPrefix ==
  updCalls > 0 =>
    \/ updArg = batchTasks[1].startKey
    \/ \E j \in TaskIds :
         /\ \A k \in 0..j : DeliveredOk(k)
         /\ updArg = delivered[j].nextKey

\* Task 1 failed after committing a batch, task 2 succeeded, and the key
\* handed to UpdateReorgMeta is the final nextKey of task 0.
C2_Witness ==
  /\ updCalls > 0
  /\ Len(batchTasks) = 3
  /\ DeliveredOk(0)
  /\ DeliveredErr(1)
  /\ delivered[1].nextKey > TaskOf(1).startKey
  /\ DeliveredOk(2)
  /\ updArg = delivered[0].nextKey
  /\ updArg # batchTasks[1].startKey

\* C3: when exactly one task of the batch, id k, failed, the key handed to
\* UpdateReorgMeta is the final nextKey of task k-1, or the batch's start key
\* when k = 0, whatever the arrival order and whichever tasks were drained.
C3_FailureTruncation ==
  (updCalls > 0 /\ Cardinality({f \in TaskIds : DeliveredErr(f)}) = 1) =>
    LET k == CHOOSE f \in TaskIds : DeliveredErr(f) IN
      IF k = 0
      THEN updArg = batchTasks[1].startKey
      ELSE /\ DeliveredOk(k - 1)
           /\ updArg = delivered[k - 1].nextKey

\* The middle task of three failed, the last one succeeded and was read
\* before the first one.
C3_Witness ==
  /\ updCalls > 0
  /\ Len(batchTasks) = 3
  /\ {f \in TaskIds : DeliveredErr(f)} = {1}
  /\ DeliveredOk(2)
  /\ drainedIds = {}
  /\ updArg = delivered[0].nextKey
  /\ delivered[2].nextKey > updArg

\* C5: every call of sendTasksAndWait calls UpdateReorgMeta exactly once,
\* with the keeper's nextKey (the last in-order success), before it returns,
\* on every path; and not before waitTaskResults returned.
C5_UpdateOnEveryReturn ==
  /\ dpc = "ret" =>
       /\ updCalls = 1
       /\ updArg = keeper.nextKey
       /\ updArg = OkPrefixKey
  /\ dpc \in {"send", "wait", "drainLen", "drainRecv"} => updCalls = 0

\* sendTasksAndWait is about to return the error of isReorgRunnable after
\* every task of a batch of several succeeded.
C5_Witness ==
  /\ dpc = "ret"
  /\ firstErr = "nil"
  /\ retErr = "ErrCancelled"
  /\ Len(batchTasks) >= 2
  /\ updCalls = 1
  /\ updArg = delivered[Len(batchTasks) - 1].nextKey

\* C7: when waitTaskResults returns it has read one result for every task a
\* worker received and none for a drained task: the results read are the
\* tasks dispatched minus the tasks drained, the task channel is empty and no
\* worker holds a task of the batch.
C7_OneResultPerReceivedTask ==
  WaitReturned =>
    /\ nRead = Len(batchTasks) - Cardinality(drainedIds)
    /\ taskCh = << >>
    /\ resultCh = << >>
    /\ Busy = {}
    /\ \A id \in TaskIds :
         IF id \in drainedIds
         THEN took[id] = 0 /\ nResults[id] = 0 /\ delivered[id] = NoResult
         ELSE took[id] = 1 /\ nResults[id] = 1 /\ delivered[id].taskID = id

\* waitTaskResults returns after a failure: one task was drained, and a
\* task in flight was waited for.
C7_Witness ==
  /\ WaitReturned
  /\ Cardinality(drainedIds) = 1
  /\ nRead = 2
  /\ \E id \in TaskIds : DeliveredErr(id)
  /\ \E id \in TaskIds : DeliveredOk(id)

\* C8: under fair scheduling, once the batch is dispatched waitTaskResults
\* eventually returns, also when a task fails and drainTasks runs while the
\* workers receive from the same task channel.
C8_WaitTaskResultsReturns == (dpc = "wait") ~> (dpc = "ret")

\* drainTasks saw len(taskCh) > 0, a worker received the last task, and the
\* driver waits in `<-taskCh` on an empty channel that nobody writes to.
C8_DrainBlocked ==
  /\ dpc = "drainRecv"
  /\ taskCh = << >>
  /\ ~taskChClosed
  /\ Busy = {}
  /\ resultCh # << >>

\* C9: a task is received by at most one worker, no two workers hold the same
\* task, at most one result is sent for it, and every task a worker received
\* has its one result read when the driver leaves waitTaskResults.
C9_OneWorkerPerTask ==
  /\ \A id \in TaskIds : took[id] <= 1 /\ nResults[id] <= took[id]
  /\ \A g1, g2 \in Busy : gor[g1].task = gor[g2].task => g1 = g2
  /\ WaitReturned =>
       \A id \in TaskIds :
         took[id] = 1 => nResults[id] = 1 /\ delivered[id].taskID = id

\* Two workers hold two different tasks of the batch at the same time.
C9_Witness ==
  \E g1, g2 \in Busy :
    /\ g1 # g2
    /\ gor[g1].task # gor[g2].task
    /\ took[gor[g1].task] = 1
    /\ took[gor[g2].task] = 1

\* The tasks dispatched and not completed: pushed, not drained, and their
\* result not yet read by the driver.
InFlight == sent - Cardinality(drainedIds) - nRead

\* C10: the tasks dispatched but not completed are at most
\* max(workerSize, backfillTaskChanSize); a batch has at most
\* backfillTaskChanSize tasks, so the task channel has room for all of the
\* batch that is not pushed yet, and the result channel has room for the
\* result of every task a worker holds.
C10_BoundedInFlight ==
  /\ InFlight <= Max(Len(workers), backfillTaskChanSize)
  /\ Len(batchTasks) <= backfillTaskChanSize
  /\ Len(taskCh) <= chanCap
  /\ dpc = "send" => Len(taskCh) + (Len(batchTasks) - sent) <= chanCap
  /\ Len(resultCh) + Cardinality(Busy) <= chanCap

\* The whole batch of backfillTaskChanSize tasks sits in the task channel
\* before any result is read.
C10_Witness ==
  /\ dpc = "wait"
  /\ Len(batchTasks) = backfillTaskChanSize
  /\ Len(taskCh) = chanCap
  /\ nRead = 0
  /\ InFlight = backfillTaskChanSize

\* ------------------------------------------------------ the whole run
\* C4: over the rounds of a run in which every batch succeeds the keys
\* handed to UpdateReorgMeta never decrease: the key of a round is at most
\* the startKey of the next round, which is at most the key of that round.
C4_MonotoneResume ==
  \A k \in 2..Len(persistLog) :
    /\ persistLog[k - 1].nextKey <= persistLog[k].nextKey
    /\ persistLog[k - 1].nextKey <= persistLog[k].startKey
    /\ persistLog[k].startKey <= persistLog[k].nextKey

\* A run of two successful rounds: the second starts above the key of the
\* first and ends with a larger key.
C4_Witness ==
  /\ Len(persistLog) = 2
  /\ persistLog[1].nextKey < persistLog[2].startKey
  /\ persistLog[2].startKey < persistLog[2].nextKey
  /\ dpc = "done"

\* Key k lies in [task.startKey, final nextKey) of some task of the run.
Covered(k) == \E t \in taskLog : t.startKey <= k /\ k < t.nextKey

\* C6 as stated: after a run without error every key of [S, E) lies in the
\* processed range of some task.
C6_AllKeysCovered ==
  dpc = "done" => \A k \in 1..(endKey - 1) : Covered(k)

\* C6: after a run without error every key of [S, E) that holds a record
\* lies in the processed range of some task.
C6_RecordKeysCovered ==
  dpc = "done" => \A k \in rows : k < endKey => Covered(k)

\* A run of two rounds that left a key without a record outside every
\* task, while the records on both sides of it were processed.
C6_Witness ==
  /\ dpc = "done"
  /\ Len(persistLog) >= 2
  /\ \E k \in 2..(endKey - 1) :
       /\ ~Covered(k)
       /\ \E r1, r2 \in rows : r1 < k /\ k < r2 /\ r2 < endKey

\* ------------------------------------------------------- the worker size
\* The driver is between handleRangeTasks' call of sendTasksAndWait and the
\* return of sendTasksAndWait.
InBatch == dpc \in {"send", "wait", "drainLen", "drainRecv", "ret"}

C16_AdjustEveryFourWorkerSizes ==
  obs.adjI >= 0 => (obs.adjCalled <=> obs.adjI % (obs.adjWs * 4) = 0)

\* With one worker the result read at loop index 1 made the driver call
\* adjustWorkerSize.
C16_AdjustAtIndexOne ==
  /\ obs.adjI = 1
  /\ obs.adjWs = 1
  /\ obs.adjCalled

\* ------------------------------------------------------- isReorgRunnable
\* C12: a worker runs a batch only after isReorgRunnable returned nil; once
\* it returned an error the worker runs no further batch and its result
\* carries that error; and when waitTaskResults returned without error the
\* driver asks isReorgRunnable once more and returns its error, after the
\* call of UpdateReorgMeta with the keeper's nextKey.
C12_RunnableChecked ==
  /\ \A g \in Goroutines :
       /\ gor[g].pc = "run" => gor[g].chk \in {"none", "ok"} /\ gor[g].res.err = "nil"
       /\ gor[g].chk = "err" =>
            gor[g].pc = "send" /\ gor[g].res.err = "ErrCancelled"
       /\ (g \in Busy /\ gor[g].res.err = "ErrCancelled") => gor[g].chk = "err"
       /\ (g \in Busy /\ gor[g].res.nextKey # TaskOf(gor[g].task).startKey) =>
            gor[g].chk # "none"
  /\ dpc = "ret" =>
       /\ firstErr = "nil" =>
            /\ obs.drvCheck \in {"ok", "err"}
            /\ retErr = IF obs.drvCheck = "err" THEN "ErrCancelled" ELSE "nil"
       /\ firstErr # "nil" => obs.drvCheck = "none" /\ retErr = firstErr
       /\ obs.drvCheck = "err" => ~runnable
       /\ updCalls = 1
       /\ updArg = keeper.nextKey

\* The job was cancelled after the first batch of a task: the worker holds a
\* result with the error of isReorgRunnable and the nextKey of that batch.
C12_Witness ==
  \E g \in Goroutines :
    /\ gor[g].pc = "send"
    /\ gor[g].chk = "err"
    /\ gor[g].res.err = "ErrCancelled"
    /\ gor[g].res.nextKey > TaskOf(gor[g].task).startKey
    /\ gor[g].res.nextKey < excludedEndKey(TaskOf(gor[g].task))

\* ------------------------------------------------------ backfillWorker.run
RECURSIVE SumTo(_, _)
SumTo(f, n) == IF n < 0 THEN 0 ELSE f[n] + SumTo(f, n - 1)

\* What one step does to goroutine g, as far as run is concerned.
RunStep(g) ==
  LET w == gor[g]
      v == gor'[g]
  IN \* the result is sent exactly when the worker leaves the send, and a
     \* task is received exactly when the worker enters handleBackfillTask
     /\ (w.pc = "send" /\ v.pc # "send") =>
          /\ resultCh' = Append(resultCh, w.res)
          /\ nResults'[w.task] = nResults[w.task] + 1
     /\ (w.pc = "recv" /\ v.pc = "run") =>
          /\ taskCh # << >>
          /\ v.task = Head(taskCh)
          /\ took'[v.task] = took[v.task] + 1
     /\ v.pc = "run" => w.pc \in {"recv", "run"}
     /\ v.pc = "send" => w.pc \in {"run", "send"} /\ v.task = w.task
     \* after a result with an error: no further task
     /\ (w.pc = "send" /\ w.res.err # "nil") => v.pc \in {"send", "exited"}
     /\ (w.pc = "send" /\ w.res.err = "nil") => v.pc \in {"send", "top"}
     \* a cancelled context ends the worker before the next receive
     /\ (w.pc = "top" /\ w.cancelled) => v.pc \in {"top", "exited"}
     \* a closed task channel ends the worker
     /\ (w.pc = "recv" /\ taskCh = << >> /\ taskChClosed) =>
          v.pc \in {"recv", "exited"}
     \* a worker returns for one of these three reasons only
     /\ (w.pc # "exited" /\ v.pc = "exited") =>
          \/ w.pc = "send" /\ w.res.err # "nil"
          \/ w.pc = "top" /\ w.cancelled
          \/ w.pc = "recv" /\ taskCh = << >> /\ taskChClosed

\* C13: run sends exactly one result for every task it receives, with at most
\* one error; after a result with an error it receives no further task and
\* returns; it also returns when the task channel is closed or when its
\* context is found cancelled before the next receive.
C13_RunOneResultPerTask ==
  [][ /\ \A g \in Goroutines : RunStep(g)
      /\ SumTo(nResults', MaxChanSize + 1) - SumTo(nResults, MaxChanSize + 1)
           \in {0, 1} \/ dpc = "split"
    ]_vars

\* A worker has returned after its result with an error, which waits in the
\* result channel, while a task it will never receive is still queued.
C13_Witness ==
  /\ taskCh # << >>
  /\ resultCh # << >>
  /\ Head(resultCh).err # "nil"
  /\ \E g \in SeqRange(workers) : gor[g].pc = "exited"
  /\ Busy = {}

\* ------------------------------------------------------- splitTableRanges
\* C14: splitTableRanges returns the single input range for a store that is
\* not region-aware, and a non-empty list or an error for one that is; it
\* never returns no range and no error, so writePhysicalTableRecord leaves
\* its loop without error only through the test startKey >= endKey.
C14_SplitNeverEmpty ==
  /\ InBatch =>
       /\ Len(kvRanges) >= 1
       /\ kvRanges[1].StartKey = startKey
       /\ ~storeIsTikv =>
            kvRanges = << [StartKey |-> startKey, EndKey |-> endKey] >>
  /\ (dpc \in {"closing", "done"} /\ retErr = "nil") => startKey >= endKey
  /\ retErr \in {"ErrSplit", "ErrInvalidSplitRegionRanges"} =>
       storeIsTikv /\ dpc \in {"closing", "failed"}

\* After a successful round the region cache found no region for the rest
\* of the span, and the run ended with ErrInvalidSplitRegionRanges.
C14_Witness ==
  /\ dpc = "failed"
  /\ retErr = "ErrInvalidSplitRegionRanges"
  /\ Len(persistLog) = 1
  /\ startKey < endKey

\* ------------------------------------------------------- the empty range
\* C15: given a range whose start key equals its end key,
\* writePhysicalTableRecord returns at once: it starts no worker, builds and
\* dispatches no task, and persists nothing.  (Every run of SpecEmpty is
\* given such a range.)
C15_EmptyRangeNoTask ==
  /\ workers = << >>
  /\ batchTasks = << >>
  /\ sent = 0
  /\ taskLog = {}

\* For the one key k of a store that is not region-aware, the task [k, k]
\* with its end included went to a worker, and the run ended without error.
C15_TaskForOneKey ==
  /\ ~storeIsTikv
  /\ endKey # NilKey
  /\ dpc = "done"
  /\ sent = 1
  /\ batchTasks = << [id |-> 0, startKey |-> endKey, endKey |-> endKey,
                      endInclude |-> TRUE] >>
  /\ DeliveredOk(0)
  /\ delivered[0].nextKey = KeyNext(endKey)

\* ------------------------------------------------------------- endInclude
\* The reverse lookup of getRangeEndKey succeeded for kvRanges[idx].
LookupOk(idx) == kvRanges[idx].EndKey \notin lookupErr

C18_FinishTaskAlwaysAndForgiving ==
  (hw.pc = "ret" /\ hw.dist) =>
    /\ hw.finCalls = 1
    /\ hw.loopErr = "nil" => hw.bfJob.State = "Done"
    /\ hw.loopErr # "nil" =>
         hw.bfJob.State = "Cancelled" /\ hw.bfJob.Error = hw.loopErr
    /\ hw.finErr = "ErrDDLJobNotFound" => hw.result.err = "nil"

\* The loop succeeded, FinishTask was called with State Done and reported
\* that the DDL job was not found, and runTask returned that error.
C18_NotFoundFromFinishKept ==
  /\ hw.pc = "ret"
  /\ hw.dist
  /\ hw.loopErr = "nil"
  /\ hw.bfJob.State = "Done"
  /\ hw.finCalls = 1
  /\ hw.finErr = "ErrDDLJobNotFound"
  /\ hw.result.err = "ErrDDLJobNotFound"

\* C19 as stated: every BackfillData call of a task runs with the batch size
\* that is configured when the call is made.
C19_BatchSizeReadPerBatch ==
  hw.pc # "idle" =>
    \A j \in 1..Len(hw.calls) : hw.calls[j].batchCnt = hw.calls[j].cfg

\* ddl_reorg_batch_size changed between the first and the second batch of
\* the task, and the second BackfillData call ran with the old value.
C19_SecondBatchWithOldSize ==
  /\ hw.pc # "idle"
  /\ Len(hw.calls) >= 2
  /\ hw.calls[1].batchCnt = hw.calls[1].cfg
  /\ hw.calls[2].cfg # hw.calls[1].cfg
  /\ hw.calls[2].batchCnt = hw.calls[1].cfg

\* The sums of the added and of the scanned rows over the successful calls.
RECURSIVE SumAdded(_)
SumAdded(calls) ==
  IF calls = << >> THEN 0
  ELSE (IF Head(calls).err = "nil" THEN Head(calls).addedCount ELSE 0)
         + SumAdded(Tail(calls))

RECURSIVE SumScanned(_)
SumScanned(calls) ==
  IF calls = << >> THEN 0
  ELSE (IF Head(calls).err = "nil" THEN Head(calls).scanCount ELSE 0)
         + SumScanned(Tail(calls))

\* C20: the first BackfillData call of a task starts at task.startKey and
\* each later one at the nextKey the previous batch returned; no call
\* follows a batch that returned done or an error; the result's nextKey is
\* the last successful batch's nextKey (task.startKey if there is none) and
\* its addedCount and scanCount are the sums over the successful batches.
C20_BatchesLeftToRight ==
  hw.pc \notin {"idle", "top"} =>
    LET c  == hw.calls
        n  == Len(c)
        ok == {j \in 1..n : c[j].err = "nil"}
    IN /\ n >= 1 => c[1].start = hw.task.startKey
       /\ \A j \in 2..n : c[j].start = c[j - 1].nextKey
       /\ \A j \in 1..(n - 1) : c[j].err = "nil" /\ ~c[j].done
       /\ (n >= 1 /\ (c[n].done \/ c[n].err # "nil")) =>
            hw.pc \in {"after", "ret"}
       /\ hw.result.nextKey =
            IF ok = {} THEN hw.task.startKey
            ELSE c[CHOOSE j \in ok : \A k \in ok : k <= j].nextKey
       /\ hw.result.addedCount = SumAdded(c)
       /\ hw.result.scanCount = SumScanned(c)
       /\ hw.rowCount = SumAdded(c)

\* A task of three batches, each adding a row, the last one done: the result
\* ends at the task's excluded end with three rows added.
C20_Witness ==
  /\ hw.pc = "ret"
  /\ Len(hw.calls) = 3
  /\ \A j \in 1..3 : hw.calls[j].addedCount = 1
  /\ hw.calls[3].done
  /\ hw.result.nextKey = excludedEndKey(hw.task)
  /\ hw.result.addedCount = 3

\* A task whose second batch failed after a first one that added a row: the
\* result keeps the first batch's nextKey and count, and the error.
C20_WitnessErr ==
  /\ hw.pc = "ret"
  /\ ~hw.dist
  /\ Len(hw.calls) = 2
  /\ hw.calls[2].err # "nil"
  /\ hw.result.nextKey = hw.calls[1].nextKey
  /\ hw.result.addedCount = 1
  /\ hw.result.err = hw.calls[2].err

\* ------------------------------------------------------ the lease refresh
\* C21: UpdateTask is never called for a task without a bfJob; for a task
\* with one, every call follows a batch that succeeded and was not done, is
\* made when at least updateInstanceLease has passed since the task started
\* or since the previous refresh, and publishes the nextKey of that batch as
\* CurrKey; after a failed refresh no further batch runs and the loop ends
\* with that error.
C21_LeaseRefresh ==
  hw.pc \notin {"idle", "top"} =>
    LET log == hw.leaseLog
        n   == Len(log)
    IN /\ ~hw.dist => n = 0
       /\ \A j \in 1..n :
            /\ log[j].elapsed >= updateInstanceLease
            /\ log[j].batch \in 1..Len(hw.calls)
            /\ hw.calls[log[j].batch].err = "nil"
            /\ ~hw.calls[log[j].batch].done
            /\ log[j].CurrKey = hw.calls[log[j].batch].nextKey
            /\ j > 1 => log[j - 1].batch < log[j].batch
            /\ log[j].err # "nil" =>
                 /\ j = n
                 /\ Len(hw.calls) = log[j].batch
                 /\ hw.pc \in {"after", "ret"}
                 /\ hw.pc = "after" => hw.result.err = log[j].err
                 /\ hw.pc = "ret" => hw.loopErr = log[j].err
       /\ n >= 1 => hw.bfJob.CurrKey = log[n].CurrKey

\* A task of three batches with a refresh after the first and after the
\* second, the second publishing a larger key, that ended without error.
C21_Witness ==
  /\ hw.pc = "ret"
  /\ hw.dist
  /\ hw.loopErr = "nil"
  /\ Len(hw.calls) = 3
  /\ Len(hw.leaseLog) = 2
  /\ hw.leaseLog[1].CurrKey < hw.leaseLog[2].CurrKey

\* A refresh whose UpdateTask failed: the task ended after that batch.
C21_WitnessErr ==
  /\ hw.pc = "ret"
  /\ Len(hw.leaseLog) = 1
  /\ hw.leaseLog[1].err = "ErrUpdateTask"
  /\ hw.loopErr = "ErrUpdateTask"
  /\ Len(hw.calls) = 1

\* --------------------------------------------------------------- panics
\* C22: a panic while a worker handles a task is recovered into exactly one
\* result, with the id of the task in flight and ErrReorgPanic, after which
\* the worker stops; the driver takes it as a failed task: it is read once,
\* sets the batch's error and is not fed to the keeper.
C22_PanicOneResult ==
  /\ \A g \in Goroutines :
       (gor[g].pc = "send" /\ gor[g].res.err = "ErrReorgPanic") =>
         /\ gor[g].res.taskID = gor[g].task
         /\ took[gor[g].task] = 1
         /\ nResults[gor[g].task] = 0
  /\ \A k \in 1..Len(resultCh) :
       resultCh[k].err = "ErrReorgPanic" =>
         /\ nResults[resultCh[k].taskID] = 1
         /\ \A g \in Goroutines : gor[g].task # resultCh[k].taskID
  /\ \A id \in TaskIds :
       (delivered[id].taskID = id /\ delivered[id].err = "ErrReorgPanic") =>
         /\ took[id] = 1
         /\ nResults[id] = 1
         /\ firstErr # "nil"
         /\ keeper.current <= id
         /\ id \notin DOMAIN keeper.doneTaskNextKey
         /\ \A g \in Goroutines : gor[g].task # id

\* The second task of a batch panicked in a worker; its result was read
\* after the first task's, the batch was collected and the run failed with
\* ErrReorgPanic.
C22_Witness ==
  /\ dpc = "failed"
  /\ retErr = "ErrReorgPanic"
  /\ DeliveredOk(0)
  /\ delivered[1].taskID = 1
  /\ delivered[1].err = "ErrReorgPanic"
  /\ nResults[1] = 1
  /\ keeper.current = 1

\* ------------------------------------------------------- the driver loop
\* The step in which handleRangeTasks returns without error and
\* writePhysicalTableRecord moves startKey: the new startKey is the start of
\* the first remaining range, or the key after the end of the last split
\* range; it is greater than the old one; and the loop is left exactly when
\* it is not below endKey.
RoundStep ==
  (dpc = "ret" /\ dpc' # "ret" /\ retErr = "nil") =>
    /\ startKey' = IF Len(batchTasks) < Len(kvRanges)
                   THEN kvRanges[Len(batchTasks) + 1].StartKey
                   ELSE KeyNext(kvRanges[Len(kvRanges)].EndKey)
    /\ startKey' > startKey
    /\ dpc' = IF startKey' >= endKey THEN "closing" ELSE "split"

\* On a store that is not region-aware a run has one round of one task.
OneRoundOneTask ==
  ~storeIsTikv =>
    /\ Len(persistLog) <= 1
    /\ Len(batchTasks) <= 1
    /\ dpc = "done" =>
         /\ Len(persistLog) = 1
         /\ Len(batchTasks) = 1
         /\ sent = 1
         /\ \A t1, t2 \in taskLog : t1 = t2

\* C23: without errors the loop of writePhysicalTableRecord ends: after
\* every round startKey moves to the first remaining range or behind the
\* last split range, it grows, the loop is left as soon as startKey >=
\* endKey, and the run returns; on a store that is not region-aware there is
\* one round with one task.
C23_LoopTerminates ==
  /\ [][RoundStep]_vars
  /\ [](OneRoundOneTask /\ (dpc = "split" => startKey < endKey))
  /\ <>(dpc = "done")

\* A run of two rounds on a region-aware store that has returned.
C23_Witness ==
  /\ dpc = "done"
  /\ storeIsTikv
  /\ Len(persistLog) = 2
  /\ persistLog[1].startKey < persistLog[2].startKey
  /\ startKey >= endKey

\* ------------------------------------------------- the durable resume key
\* C24: the persisted resume key changes only in the step of sendTasksAndWait
\* that calls UpdateReorgMeta, to the key passed to that call; no step of a
\* worker and no change of the environment changes it.
C24_OnlyDriverPersists ==
  [][ /\ persisted' # persisted =>
           /\ dpc = "wait" /\ dpc' = "ret"
           /\ updCalls' = updCalls + 1
           /\ updArg' = keeper.nextKey
           /\ persisted' = updArg'
      /\ \A g \in Goroutines : WorkerNext(g) => persisted' = persisted
      /\ EnvNext => persisted' = persisted
    ]_vars

\* In the second round, with the key of the first round stored, a worker is
\* in the middle of a task and has moved on from the task's start.
C24_Witness ==
  /\ Len(persistLog) = 1
  /\ persisted = persistLog[1].nextKey
  /\ persisted > persistLog[1].startKey
  /\ dpc = "wait"
  /\ \E g \in Goroutines :
       /\ gor[g].pc = "run"
       /\ gor[g].cur > persisted

\* ---------------------------------------------------------- the first error
\* C25: while waitTaskResults collects a batch its firstErr is the error of
\* the first failed result it read, whatever the task ids; sendTasksAndWait
\* returns that error; and once a round has returned an error no further
\* round is started: writePhysicalTableRecord returns the error.
C25_FirstErrorWins ==
  /\ dpc \in {"wait", "drainLen", "drainRecv"} =>
       firstErr = IF obs.errSeq = << >> THEN "nil" ELSE obs.errSeq[1].err
  /\ (dpc \in {"ret", "closing", "failed"} /\ obs.errSeq # << >>) =>
       retErr = obs.errSeq[1].err
  /\ retErr # "nil" => dpc \in {"ret", "closing", "failed"}
  /\ dpc = "done" => retErr = "nil" /\ obs.errSeq = << >>

\* Two tasks of a batch failed with different errors, the one with the
\* larger id was read first, and the run returned its error.
C25_Witness ==
  /\ dpc = "failed"
  /\ Len(obs.errSeq) = 2
  /\ obs.errSeq[1].taskID > obs.errSeq[2].taskID
  /\ obs.errSeq[1].err # obs.errSeq[2].err
  /\ retErr = obs.errSeq[1].err

\* ------------------------------------------------ the keeper, order 2, 0, 1
\* The ids fed so far are the first ones of the order 2, 0, 1 of a batch of
\* three tasks.
FedTwoZeroOne ==
  /\ kpN = 3
  /\ \A j \in 1..Len(kpHist) : kpHist[j].id = << 2, 0, 1 >>[j]

\* C26 as stated: for three tasks fed in the order 2, 0, 1 the keeper's
\* nextKey is start at first and after the first update, k1 after the
\* second and k2 after the third.
C26_SequenceStartStartK1K2 ==
  FedTwoZeroOne =>
    /\ Len(kpHist) = 0 => keeper.nextKey = kpStart
    /\ Len(kpHist) >= 1 => kpHist[1].nextKey = kpStart
    /\ Len(kpHist) >= 2 => kpHist[2].nextKey = kpKeys[1]
    /\ Len(kpHist) >= 3 => kpHist[3].nextKey = kpKeys[2]

\* C26, amended: for three tasks fed in the order 2, 0, 1 the keeper's
\* nextKey is start at first and after the first update, k0 after the
\* second and k2 after the third, which is the value waitTaskResults
\* returns for the batch.
C26_SequenceStartStartK0K2 ==
  FedTwoZeroOne =>
    /\ Len(kpHist) = 0 => keeper.nextKey = kpStart
    /\ Len(kpHist) >= 1 => kpHist[1].nextKey = kpStart
    /\ Len(kpHist) >= 2 => kpHist[2].nextKey = kpKeys[0]
    /\ Len(kpHist) >= 3 =>
         /\ kpHist[3].nextKey = kpKeys[2]
         /\ keeper.nextKey = kpKeys[2]
         /\ keeper.doneTaskNextKey = EmptyMap

\* Three tasks with different next keys, all above the start, were fed in
\* the order 2, 0, 1.
C26_Witness ==
  /\ FedTwoZeroOne
  /\ Len(kpHist) = 3
  /\ kpStart < kpKeys[0]
  /\ kpKeys[0] < kpKeys[1]
  /\ kpKeys[1] < kpKeys[2]
  /\ kpHist[2].nextKey = kpKeys[0]

\* ------------------------------------------- a failing UpdateReorgMeta
\* The rounds whose UpdateReorgMeta call stored its key.
StoredRounds == {k \in 1..Len(persistLog) : persistLog[k].stored}

\* C27: sendTasksAndWait returns an error exactly when waitTaskResults
\* returned one or the isReorgRunnable check after it failed, whatever
\* UpdateReorgMeta returned; the durable key is the key of the last call
\* that succeeded (the key at entry when none did), so after a failed call
\* that follows a successful batch the run goes on without error and the
\* durable key keeps its older value.
C27_PersistErrorSwallowed ==
  /\ dpc = "ret" =>
       /\ retErr # "nil" <=> (firstErr # "nil" \/ obs.drvCheck = "err")
       /\ retErr \in {firstErr, "ErrCancelled"}
  /\ persisted = IF StoredRounds = {}
                 THEN (IF persistLog = << >> THEN startKey
                       ELSE persistLog[1].startKey)
                 ELSE persistLog[CHOOSE k \in StoredRounds :
                                   \A j \in StoredRounds : j <= k].nextKey
  /\ retErr \notin {"ErrUpdateReorgMeta"}

\* The first round succeeded but its UpdateReorgMeta failed; the second
\* round is under way and the durable key is still the key at entry, below
\* the start of the second round.
C27_Witness ==
  /\ Len(persistLog) = 1
  /\ ~persistLog[1].stored
  /\ persistLog[1].nextKey > persistLog[1].startKey
  /\ dpc = "wait"
  /\ retErr = "nil"
  /\ sent >= 1
  /\ persisted = persistLog[1].startKey
  /\ persisted < startKey

\* ------------------------------------------------- the tasks of a batch
\* The keys a task covers: [startKey, endKey] when its end is included, else
\* [startKey, endKey).
TaskKeys(task) == task.startKey..(excludedEndKey(task) - 1)

\* C28 as stated: the key sets of two different tasks of a batch are
\* disjoint, whatever getRangeEndKey returned for their ranges.
C28_TasksDisjoint ==
  \A a, b \in 1..Len(batchTasks) :
    a # b => TaskKeys(batchTasks[a]) \cap TaskKeys(batchTasks[b]) = {}

\* The reverse lookup failed for a range that is not the last one: its task
\* keeps the declared end, includes it, and so shares that key with the task
\* of the next range, which starts there.
C28_OverlapAfterLookupError ==
  /\ Len(batchTasks) >= 2
  /\ sent = Len(batchTasks)
  /\ kvRanges[1].EndKey \in lookupErr
  /\ batchTasks[1].endKey = kvRanges[1].EndKey
  /\ batchTasks[1].endInclude
  /\ batchTasks[2].startKey = batchTasks[1].endKey
  /\ batchTasks[1].endKey \in TaskKeys(batchTasks[1]) \cap TaskKeys(batchTasks[2])

\* ------------------------------------------------------- the row counts
\* The rows of the results the driver read for the tasks 0..n of the batch:
\* those without error (ok) or those with one.
RECURSIVE DeliveredRows(_, _)
DeliveredRows(n, ok) ==
  IF n < 0 THEN 0
  ELSE (IF delivered[n].taskID = n /\ (delivered[n].err = "nil") = ok
        THEN delivered[n].addedCount ELSE 0) + DeliveredRows(n - 1, ok)

\* C29: within a batch the reorg context's row count has grown by the rows
\* of every committed batch of every task, those of failed tasks included,
\* while totalAddedCount has grown by the rows of the results read without
\* error only; so the first increase is at least the second, and they are
\* equal when waitTaskResults returns without error.
C29_RowCountCoversTotal ==
  /\ obs.totalAdded = DeliveredRows(MaxChanSize, TRUE)
  /\ obs.rcRows >= obs.totalAdded + DeliveredRows(MaxChanSize, FALSE)
  /\ obs.rcRows >= obs.totalAdded
  /\ (WaitReturned /\ firstErr = "nil") => obs.rcRows = obs.totalAdded

\* A batch in which one task succeeded with rows added and another failed
\* after a committed batch with rows: the reorg context has counted more
\* rows than totalAddedCount.
C29_Witness ==
  /\ WaitReturned
  /\ firstErr # "nil"
  /\ obs.totalAdded > 0
  /\ DeliveredRows(MaxChanSize, FALSE) > 0
  /\ obs.rcRows > obs.totalAdded
====
